---- MODULE Spec2Model ----
(***************************************************************************)
(* Model of the todomvc-api task and person endpoints:                     *)
(*   flask/app/views/task.py    (Tasks.get/post, TaskById.put/delete)      *)
(*   flask/app/views/person.py  (Me.get/put)                               *)
(*   common/services/task.py, common/repositories/task.py                  *)
(* A request is handled in a slot.  A handler is split at its calls to the *)
(* store, so that requests served by different workers can interleave.     *)
(* Strings are sequences of characters; " " is the whitespace character.   *)
(***************************************************************************)
EXTENDS Integers, Sequences, FiniteSets, TLC

VARIABLES tasks, persons, clock, reqs

vars == <<tasks, persons, clock, reqs>>

(* ---------------------------- bounds ----------------------------------- *)
\* number of task records that may be created
MaxTasks == 2
\* number of saves (each save takes a fresh changed_on timestamp)
MaxClock == 3

(* ---------------------------- inputs ----------------------------------- *)
Persons == {"P1", "P2"}

\* an optional value: absent (Python None) or one value
Absent == <<>>
Some(x) == <<x>>
IsNone(o) == o = <<>>
Val(o) == o[1]

\* request strings: empty, whitespace only, plain, padded with an inner space
StrInputs == { <<>>, <<" ", " ">>, <<"a">>, <<" ", "a", " ", "b", " ">> }
OptStrInputs == {Absent} \cup {Some(s) : s \in StrInputs}
\* strings used by the two-slot specification
ConcStrInputs == {Absent, Some(<<" ", "a", " ", "b", " ">>)}

\* strings used by the specification of task and person requests together
AllStrInputs == {Absent, Some(<<>>), Some(<<" ", " ">>), Some(<<" ", "a", " ", "b", " ">>)}

\* JSON values of 'completed': null, booleans, and numbers
CompletedInputs == {"null", "true", "false", "0"}
ConcCompletedInputs == {"null", "true"}
AllCompletedInputs == {"null", "true", "false"}

\* task ids a request may name; 0 is an id that no record has
TaskIdInputs == 0..MaxTasks

Slots == {1, 2}

(* ---------------------------- pure helpers ----------------------------- *)
RECURSIVE LStrip(_)
LStrip(s) == IF s # <<>> /\ Head(s) = " " THEN LStrip(Tail(s)) ELSE s

RECURSIVE RStrip(_)
RStrip(s) ==
    IF s # <<>> /\ s[Len(s)] = " " THEN RStrip(SubSeq(s, 1, Len(s) - 1)) ELSE s

\* no strip at all
Strip_Identity(s) == s

\* str.lstrip() in place of str.strip()
Strip_LeftOnly(s) == LStrip(s)

\* str.strip()
Strip(s) == RStrip(LStrip(s))

\* Python truthiness of an optional string: None and "" are falsy
Falsy(o) == IsNone(o) \/ Val(o) = <<>>

\* the emptiness test without the strip: a blank string passes
EmptyStr_NoStrip(o) == Falsy(o)

\* `not x or not str(x).strip()` for a string that is not None
EmptyStr(o) == Falsy(o) \/ Strip(Val(o)) = <<>>

\* bool(completed) for a JSON value that is not null
PyBool(j) == j \in {"true", "1"}

\* `not completed` in place of `completed is None`
CompletedAbsent_Falsy(c) == c \in {"null", "false", "0"}

\* `completed is None`
CompletedAbsent(c) == c = "null"

(* ---------------------------- the store -------------------------------- *)
\* Task(person_id=..., title=..., completed=False): a fresh entity_id, active
NewTask(p, t) ==
    [entity_id |-> Len(tasks) + 1, person_id |-> p, title |-> t,
     completed |-> FALSE, active |-> TRUE, changed_on |-> 0]

\* repository save: insert-or-update of the whole record, changed_on refreshed
Saved(obj) == [obj EXCEPT !.changed_on = clock + 1]

\* the save dropped when the stored record was saved after the object was fetched
SaveTask_SkipsStale(obj) ==
    /\ clock' = clock + 1
    /\ tasks' = IF obj.entity_id \in DOMAIN tasks
                THEN IF tasks[obj.entity_id].changed_on # obj.changed_on
                     THEN tasks
                     ELSE [tasks EXCEPT ![obj.entity_id] = Saved(obj)]
                ELSE Append(tasks, Saved(obj))

\* the save with the changed_on of the object left as it was fetched
SaveTask_KeepsStamp(obj) ==
    /\ clock' = clock + 1
    /\ tasks' = IF obj.entity_id \in DOMAIN tasks
                THEN [tasks EXCEPT ![obj.entity_id] = obj]
                ELSE Append(tasks, obj)

SaveTask(obj) ==
    /\ clock' = clock + 1
    /\ tasks' = IF obj.entity_id \in DOMAIN tasks
                THEN [tasks EXCEPT ![obj.entity_id] = Saved(obj)]
                ELSE Append(tasks, Saved(obj))

SavePerson(obj) ==
    /\ clock' = clock + 1
    /\ persons' = [persons EXCEPT ![obj.entity_id] = Saved(obj)]

\* get_one({"entity_id": id}): the active record with that id, or None
get_task_by_id(id) ==
    IF id \in DOMAIN tasks /\ tasks[id].active THEN Some(tasks[id]) ELSE Absent

get_person_by_id(id) ==
    IF id \in DOMAIN persons /\ persons[id].active THEN Some(persons[id]) ELSE Absent

\* the same records in ascending order of changed_on
RECURSIVE OrderedDesc_Asc(_, _)
OrderedDesc_Asc(tt, ids) ==
    IF ids = {} THEN <<>>
    ELSE LET m == CHOOSE i \in ids :
                    \A j \in ids : \/ tt[i].changed_on < tt[j].changed_on
                                   \/ (tt[i].changed_on = tt[j].changed_on /\ i <= j)
         IN <<tt[m]>> \o OrderedDesc_Asc(tt, ids \ {m})

\* the records of tt with an id in ids, most recently changed first
RECURSIVE OrderedDesc(_, _)
OrderedDesc(tt, ids) ==
    IF ids = {} THEN <<>>
    ELSE LET m == CHOOSE i \in ids :
                    \A j \in ids : \/ tt[i].changed_on > tt[j].changed_on
                                   \/ (tt[i].changed_on = tt[j].changed_on /\ i <= j)
         IN <<tt[m]>> \o OrderedDesc(tt, ids \ {m})

\* the query without its `active = true` condition
get_tasks_by_person_id_ordered_NoActive(p) ==
    OrderedDesc(tasks, {i \in DOMAIN tasks : tasks[i].person_id = p})

\* SELECT * FROM task WHERE person_id = %s AND active = true ORDER BY changed_on DESC
get_tasks_by_person_id_ordered(p) ==
    OrderedDesc(tasks, {i \in DOMAIN tasks : tasks[i].person_id = p /\ tasks[i].active})

get_tasks_by_person_id(p) == get_tasks_by_person_id_ordered(p)

(* ---------------------------- responses -------------------------------- *)
NoResp == [status |-> 0, success |-> FALSE, message |-> "", tasks |-> <<>>, person |-> <<>>]

get_success_response(msg, tt, pp) ==
    [status |-> 200, success |-> TRUE, message |-> msg, tasks |-> tt, person |-> pp]

\* InputValidationError, rendered by the error handler
InputValidationError(msg) ==
    [status |-> 200, success |-> FALSE, message |-> msg, tasks |-> <<>>, person |-> <<>>]

\* what a request can carry instead of a valid access token
TokenInputs == {"missing", "invalid"}

\* login_required without a valid token
AuthFailure(token) ==
    [status |-> 401, success |-> FALSE,
     message |-> IF token = "missing" THEN "Authorization header not present"
                                      ELSE "Access token is invalid",
     tasks |-> <<>>, person |-> <<>>]

\* an exception no handler catches
UnhandledError ==
    [status |-> 500, success |-> FALSE, message |-> "AttributeError",
     tasks |-> <<>>, person |-> <<>>]

\* an exception raised by the store's save, rendered by the error handler
PersistenceFailure ==
    [status |-> 500, success |-> FALSE, message |-> "save failed",
     tasks |-> <<>>, person |-> <<>>]

(* ---------------------------- request slots ---------------------------- *)
IdleReq ==
    [pc |-> "idle", op |-> "", person |-> "", task_id |-> 0,
     title |-> Absent, completed |-> "null", first_name |-> Absent, last_name |-> Absent,
     obj |-> <<>>, resp |-> NoResp]

Request(o, p, id, t, c, fn, ln) ==
    [pc |-> "idle", op |-> o, person |-> p, task_id |-> id,
     title |-> t, completed |-> c, first_name |-> fn, last_name |-> ln,
     obj |-> <<>>, resp |-> NoResp]

Done(rq, rs) == [rq EXCEPT !.pc = "done", !.resp = rs]

\* a slot can take a new request when it holds none
Free(r) == reqs[r].pc = "idle"

\* requests that have still to save
Pending == {r \in Slots : reqs[r].pc \in {"put_save", "delete_save", "me_save"}}

\* room for one more save once every pending request has saved
CanSave == clock + Cardinality(Pending) < MaxClock

Init ==
    /\ tasks = <<>>
    /\ persons = [p \in Persons |->
                    [entity_id |-> p, first_name |-> <<"t">>, last_name |-> <<"u">>,
                     active |-> TRUE, changed_on |-> 0]]
    /\ clock = 0
    /\ reqs = [r \in Slots |-> IdleReq]

\* the response has been sent: the worker is free for the next request
Respond(r) ==
    /\ reqs[r].pc = "done"
    /\ reqs' = [reqs EXCEPT ![r] = IdleReq]
    /\ UNCHANGED <<tasks, persons, clock>>

(* ---------------------------- authentication --------------------------- *)
\* login_required: without a valid access token the handler is not entered
Unauthenticated(r, o) ==
    /\ Free(r)
    /\ \E token \in TokenInputs :
          reqs' = [reqs EXCEPT ![r] =
                     Done(Request(o, "", 0, Absent, "null", Absent, Absent),
                          AuthFailure(token))]
    /\ UNCHANGED <<tasks, persons, clock>>

(* ---------------------------- Tasks.get -------------------------------- *)
TasksGet(r, p) ==
    /\ Free(r)
    /\ LET rq == Request("GET /tasks", p, 0, Absent, "null", Absent, Absent)
           found == get_tasks_by_person_id(p)
       IN reqs' = [reqs EXCEPT ![r] = Done(rq, get_success_response("", found, <<>>))]
    /\ UNCHANGED <<tasks, persons, clock>>

(* ---------------------------- Tasks.post ------------------------------- *)
\* validate_required_fields: a required field that is missing or blank
validate_required_fields(title) == ~EmptyStr(title)

TasksPost(r, p, title) ==
    /\ Free(r)
    /\ LET rq == Request("POST /tasks", p, 0, title, "null", Absent, Absent)
       IN IF ~validate_required_fields(title)
          THEN /\ reqs' = [reqs EXCEPT ![r] =
                   Done(rq, InputValidationError("'title' is required and cannot be empty."))]
               /\ UNCHANGED <<tasks, persons, clock>>
          ELSE IF EmptyStr(title)
          THEN /\ reqs' = [reqs EXCEPT ![r] =
                   Done(rq, InputValidationError("'title' cannot be empty."))]
               /\ UNCHANGED <<tasks, persons, clock>>
          ELSE /\ Len(tasks) < MaxTasks
               /\ CanSave
               /\ LET new_task == NewTask(p, Strip(Val(title)))
                      saved_task == Saved(new_task)
                  IN /\ SaveTask(new_task)
                     /\ reqs' = [reqs EXCEPT ![r] =
                           Done(rq, get_success_response("Task created successfully.",
                                                         <<saved_task>>, <<>>))]
               /\ UNCHANGED persons

(* ---------------------------- TaskById.put ----------------------------- *)
\* the field assignments with `completed` assigned also when it is absent
ApplyTaskFields_ResetsCompleted(task, title, completed) ==
    LET t1 == IF ~IsNone(title) THEN [task EXCEPT !.title = Strip(Val(title))] ELSE task
    IN [t1 EXCEPT !.completed = PyBool(completed)]

\* a fresh object built from the id and the body, its person_id left unset
ApplyTaskFields_DropsOwner(task, title, completed) ==
    [task EXCEPT !.person_id = "",
                 !.title = IF IsNone(title) THEN task.title ELSE Strip(Val(title)),
                 !.completed = IF CompletedAbsent(completed) THEN task.completed
                               ELSE PyBool(completed)]

\* the field assignments: only a supplied field is assigned
ApplyTaskFields(task, title, completed) ==
    LET t1 == IF ~IsNone(title) THEN [task EXCEPT !.title = Strip(Val(title))] ELSE task
    IN IF ~CompletedAbsent(completed)
       THEN [t1 EXCEPT !.completed = PyBool(completed)]
       ELSE t1

\* the body checks with the title check skipped when completed is supplied
TaskPutValidation_TitleOrCompleted(title, completed) ==
    IF IsNone(title) /\ CompletedAbsent(completed)
    THEN "At least one of 'title' or 'completed' must be provided."
    ELSE IF CompletedAbsent(completed) /\ ~IsNone(title) /\ EmptyStr(title)
    THEN "'title' cannot be empty if provided."
    ELSE ""

\* the body checks without the check that a field is supplied
TaskPutValidation_SkipsAtLeastOne(title, completed) ==
    IF ~IsNone(title) /\ EmptyStr(title)
    THEN "'title' cannot be empty if provided."
    ELSE ""

\* the body checks of the handler: the message of the failure, "" when there is none
TaskPutValidation(title, completed) ==
    IF IsNone(title) /\ CompletedAbsent(completed)
    THEN "At least one of 'title' or 'completed' must be provided."
    ELSE IF ~IsNone(title) /\ EmptyStr(title)
    THEN "'title' cannot be empty if provided."
    ELSE ""

\* the handler with the fields assigned and saved before the ownership check
TaskPutBegin_SavesBeforeOwnerCheck(r, p, id, title, completed) ==
    /\ Free(r)
    /\ LET rq == Request("PUT /tasks/id", p, id, title, completed, Absent, Absent)
           existing_task == get_task_by_id(id)
       IN IF TaskPutValidation(title, completed) # ""
          THEN /\ reqs' = [reqs EXCEPT ![r] =
                    Done(rq, InputValidationError(TaskPutValidation(title, completed)))]
               /\ UNCHANGED <<tasks, clock>>
          ELSE IF IsNone(existing_task)
          THEN /\ reqs' = [reqs EXCEPT ![r] = Done(rq, InputValidationError("Task not found."))]
               /\ UNCHANGED <<tasks, clock>>
          ELSE IF Val(existing_task).person_id # p
          THEN /\ CanSave
               /\ SaveTask(ApplyTaskFields(Val(existing_task), title, completed))
               /\ reqs' = [reqs EXCEPT ![r] = Done(rq, InputValidationError(
                             "You do not have permission to update this task."))]
          ELSE /\ CanSave
               /\ reqs' = [reqs EXCEPT ![r] =
                     [rq EXCEPT !.pc = "put_save",
                                !.obj = Some(ApplyTaskFields(Val(existing_task),
                                                             title, completed))]]
               /\ UNCHANGED <<tasks, clock>>
    /\ UNCHANGED persons

\* the handler up to its save: validation, fetch, checks, field assignment
TaskPutBegin(r, p, id, title, completed) ==
    /\ Free(r)
    /\ LET rq == Request("PUT /tasks/id", p, id, title, completed, Absent, Absent)
           existing_task == get_task_by_id(id)
       IN IF TaskPutValidation(title, completed) # ""
          THEN reqs' = [reqs EXCEPT ![r] =
                          Done(rq, InputValidationError(TaskPutValidation(title, completed)))]
          ELSE IF IsNone(existing_task)
          THEN reqs' = [reqs EXCEPT ![r] = Done(rq, InputValidationError("Task not found."))]
          ELSE IF Val(existing_task).person_id # p
          THEN reqs' = [reqs EXCEPT ![r] = Done(rq, InputValidationError(
                          "You do not have permission to update this task."))]
          ELSE /\ CanSave
               /\ reqs' = [reqs EXCEPT ![r] =
                     [rq EXCEPT !.pc = "put_save",
                                !.obj = Some(ApplyTaskFields(Val(existing_task),
                                                             title, completed))]]
    /\ UNCHANGED <<tasks, persons, clock>>

\* task_service.save_task(existing_task)
TaskPutSave(r) ==
    /\ reqs[r].pc = "put_save"
    /\ SaveTask(Val(reqs[r].obj))
    /\ reqs' = [reqs EXCEPT ![r].pc = "put_refetch"]
    /\ UNCHANGED persons

\* the failure of the save caught and ignored: the handler goes on to its re-fetch
TaskPutSaveFails_Swallowed(r) ==
    /\ reqs[r].pc = "put_save"
    /\ reqs' = [reqs EXCEPT ![r].pc = "put_refetch"]
    /\ UNCHANGED <<tasks, persons, clock>>

\* task_service.save_task(existing_task) raises: nothing is written and the
\* exception leaves the handler before its re-fetch and its success response
TaskPutSaveFails(r) ==
    /\ reqs[r].pc = "put_save"
    /\ reqs' = [reqs EXCEPT ![r] = Done(reqs[r], PersistenceFailure)]
    /\ UNCHANGED <<tasks, persons, clock>>

\* updated_task = get_task_by_id(task_id); updated_task.as_dict()
TaskPutRefetch(r) ==
    /\ reqs[r].pc = "put_refetch"
    /\ LET updated_task == get_task_by_id(reqs[r].task_id)
       IN reqs' = [reqs EXCEPT ![r] =
                     IF IsNone(updated_task)
                     THEN Done(reqs[r], UnhandledError)
                     ELSE Done(reqs[r], get_success_response("Task updated successfully.",
                                                             <<Val(updated_task)>>, <<>>))]
    /\ UNCHANGED <<tasks, persons, clock>>

(* ---------------------------- TaskById.delete -------------------------- *)
TaskDeleteBegin(r, p, id) ==
    /\ Free(r)
    /\ LET rq == Request("DELETE /tasks/id", p, id, Absent, "null", Absent, Absent)
           existing_task == get_task_by_id(id)
       IN IF IsNone(existing_task)
          THEN reqs' = [reqs EXCEPT ![r] = Done(rq, InputValidationError("Task not found."))]
          ELSE IF Val(existing_task).person_id # p
          THEN reqs' = [reqs EXCEPT ![r] = Done(rq, InputValidationError(
                          "You do not have permission to delete this task."))]
          ELSE /\ CanSave
               /\ reqs' = [reqs EXCEPT ![r] =
                             [rq EXCEPT !.pc = "delete_save", !.obj = existing_task]]
    /\ UNCHANGED <<tasks, persons, clock>>

\* the delete cascading to every task of the owner
delete_task_Cascades(task) ==
    /\ clock' = clock + 1
    /\ tasks' = [i \in DOMAIN tasks |->
                   IF tasks[i].person_id = task.person_id
                   THEN [tasks[i] EXCEPT !.active = FALSE, !.changed_on = clock + 1]
                   ELSE tasks[i]]

\* the save without the assignment of the flag
delete_task_KeepsActive(task) == SaveTask(task)

\* TaskService.delete_task: task.active = False; save
delete_task(task) == SaveTask([task EXCEPT !.active = FALSE])

TaskDeleteSave(r) ==
    /\ reqs[r].pc = "delete_save"
    /\ delete_task(Val(reqs[r].obj))
    /\ reqs' = [reqs EXCEPT ![r] =
                  Done(reqs[r], get_success_response("Task deleted successfully.", <<>>, <<>>))]
    /\ UNCHANGED persons

(* ---------------------------- Me.get ----------------------------------- *)
MeGet(r, p) ==
    /\ Free(r)
    /\ LET rq == Request("GET /person/me", p, 0, Absent, "null", Absent, Absent)
           db_person == get_person_by_id(p)
       IN reqs' = [reqs EXCEPT ![r] =
                     IF IsNone(db_person)
                     THEN Done(rq, InputValidationError("Person not found."))
                     ELSE Done(rq, get_success_response("", <<>>, db_person))]
    /\ UNCHANGED <<tasks, persons, clock>>

(* ---------------------------- Me.put ----------------------------------- *)
\* the field assignments with a name that is absent assigned as the empty string
ApplyPersonFields_OverwritesBoth(person, first_name, last_name) ==
    [person EXCEPT
       !.first_name = IF IsNone(first_name) THEN <<>> ELSE Strip(Val(first_name)),
       !.last_name = IF IsNone(last_name) THEN <<>> ELSE Strip(Val(last_name))]

\* the field assignments: only a supplied name is assigned
ApplyPersonFields(person, first_name, last_name) ==
    LET p1 == IF ~IsNone(first_name)
              THEN [person EXCEPT !.first_name = Strip(Val(first_name))]
              ELSE person
    IN IF ~IsNone(last_name) THEN [p1 EXCEPT !.last_name = Strip(Val(last_name))] ELSE p1

\* the body checks with the last_name check skipped when first_name is supplied
MePutValidation_FirstOnly(first_name, last_name) ==
    IF Falsy(first_name) /\ Falsy(last_name)
    THEN "At least one of 'first_name' or 'last_name' must be provided."
    ELSE IF ~IsNone(first_name) /\ EmptyStr(first_name)
    THEN "'first_name' cannot be empty if provided."
    ELSE IF IsNone(first_name) /\ ~IsNone(last_name) /\ EmptyStr(last_name)
    THEN "'last_name' cannot be empty if provided."
    ELSE ""

\* the body checks of the handler: the message of the failure, "" when there is none
MePutValidation(first_name, last_name) ==
    IF Falsy(first_name) /\ Falsy(last_name)
    THEN "At least one of 'first_name' or 'last_name' must be provided."
    ELSE IF ~IsNone(first_name) /\ EmptyStr(first_name)
    THEN "'first_name' cannot be empty if provided."
    ELSE IF ~IsNone(last_name) /\ EmptyStr(last_name)
    THEN "'last_name' cannot be empty if provided."
    ELSE ""

MePutBegin(r, p, first_name, last_name) ==
    /\ Free(r)
    /\ LET rq == Request("PUT /person/me", p, 0, Absent, "null", first_name, last_name)
           db_person == get_person_by_id(p)
       IN IF MePutValidation(first_name, last_name) # ""
          THEN reqs' = [reqs EXCEPT ![r] =
                          Done(rq, InputValidationError(MePutValidation(first_name, last_name)))]
          ELSE IF IsNone(db_person)
          THEN reqs' = [reqs EXCEPT ![r] = Done(rq, InputValidationError("Person not found."))]
          ELSE /\ CanSave
               /\ reqs' = [reqs EXCEPT ![r] =
                     [rq EXCEPT !.pc = "me_save",
                                !.obj = Some(ApplyPersonFields(Val(db_person),
                                                               first_name, last_name))]]
    /\ UNCHANGED <<tasks, persons, clock>>

\* person_service.save_person(db_person)
MePutSave(r) ==
    /\ reqs[r].pc = "me_save"
    /\ SavePerson(Val(reqs[r].obj))
    /\ reqs' = [reqs EXCEPT ![r].pc = "me_refetch"]
    /\ UNCHANGED tasks

\* person_service.save_person(db_person) raises: nothing is written and the
\* exception leaves the handler before its re-fetch and its success response
MePutSaveFails(r) ==
    /\ reqs[r].pc = "me_save"
    /\ reqs' = [reqs EXCEPT ![r] = Done(reqs[r], PersistenceFailure)]
    /\ UNCHANGED <<tasks, persons, clock>>

\* saved_person = get_person_by_id(person.entity_id)
MePutRefetch(r) ==
    /\ reqs[r].pc = "me_refetch"
    /\ LET saved_person == get_person_by_id(reqs[r].person)
       IN reqs' = [reqs EXCEPT ![r] =
                     Done(reqs[r], get_success_response("Name updated successfully.",
                                                        <<>>, saved_person))]
    /\ UNCHANGED <<tasks, persons, clock>>

(* ---------------------------- specifications --------------------------- *)
TaskOps == {"GET /tasks", "POST /tasks", "PUT /tasks/id", "DELETE /tasks/id"}
PersonOps == {"GET /person/me", "PUT /person/me"}

\* the steps of a task request in slot r, its inputs drawn from the given sets
HandleTask(r, strs, comps) ==
    \/ \E o \in TaskOps : Unauthenticated(r, o)
    \/ \E p \in Persons : TasksGet(r, p)
    \/ \E p \in Persons, t \in strs : TasksPost(r, p, t)
    \/ \E p \in Persons, id \in TaskIdInputs, t \in strs, c \in comps :
          TaskPutBegin(r, p, id, t, c)
    \/ TaskPutSave(r)
    \/ TaskPutRefetch(r)
    \/ \E p \in Persons, id \in TaskIdInputs : TaskDeleteBegin(r, p, id)
    \/ TaskDeleteSave(r)
    \/ Respond(r)

\* the steps of a person request in slot r
HandlePerson(r, strs) ==
    \/ \E o \in PersonOps : Unauthenticated(r, o)
    \/ \E p \in Persons : MeGet(r, p)
    \/ \E p \in Persons, fn \in strs, ln \in strs : MePutBegin(r, p, fn, ln)
    \/ MePutSave(r)
    \/ MePutRefetch(r)
    \/ Respond(r)

\* task requests, one at a time: each handler runs from its first step to its response
Next == HandleTask(1, OptStrInputs, CompletedInputs)

Spec == Init /\ [][Next]_vars

\* person requests, one at a time
NextPerson == HandlePerson(1, OptStrInputs)

SpecPerson == Init /\ [][NextPerson]_vars

\* two workers: the steps of two task requests interleave at their store calls
NextConc == \E r \in Slots : HandleTask(r, ConcStrInputs, ConcCompletedInputs)

SpecConc == Init /\ [][NextConc]_vars

\* task and person requests, one at a time
NextAll ==
    \/ HandleTask(1, AllStrInputs, AllCompletedInputs)
    \/ HandlePerson(1, AllStrInputs)

SpecAll == Init /\ [][NextAll]_vars

\* task and person requests, one at a time, with saves of updates that can fail
NextFail ==
    \/ HandleTask(1, AllStrInputs, AllCompletedInputs)
    \/ HandlePerson(1, AllStrInputs)
    \/ TaskPutSaveFails(1)
    \/ MePutSaveFails(1)

SpecFail == Init /\ [][NextFail]_vars

\* the person whose requests the specification of interleaved updates covers
UpdPersons == {"P1"}

\* create and update requests of tasks and persons, interleaved on two workers
HandleUpdates(r) ==
    \/ \E p \in UpdPersons, t \in ConcStrInputs : TasksPost(r, p, t)
    \/ \E p \in UpdPersons, id \in TaskIdInputs, t \in ConcStrInputs, c \in ConcCompletedInputs :
          TaskPutBegin(r, p, id, t, c)
    \/ TaskPutSave(r)
    \/ TaskPutRefetch(r)
    \/ \E p \in UpdPersons, fn \in ConcStrInputs, ln \in ConcStrInputs : MePutBegin(r, p, fn, ln)
    \/ MePutSave(r)
    \/ MePutRefetch(r)
    \/ Respond(r)

NextUpd == \E r \in Slots : HandleUpdates(r)

SpecUpd == Init /\ [][NextUpd]_vars

(* ======================================================================= *)
(* Properties                                                              *)
(* ======================================================================= *)
\* s is made of whitespace only (the empty string included)
IsBlank(s) == \A i \in 1..Len(s) : s[i] = " "

\* u is t without its leading and trailing whitespace
IsTrimOf(u, t) ==
    /\ \E i \in 0..Len(t), j \in 0..Len(t) :
          /\ i + j <= Len(t)
          /\ \A k \in 1..i : t[k] = " "
          /\ \A k \in (Len(t) - j + 1)..Len(t) : t[k] = " "
          /\ u = SubSeq(t, i + 1, Len(t) - j)
    /\ u # <<>> => (u[1] # " " /\ u[Len(u)] # " ")

\* a request enters slot r in this step; reqs'[r] carries its inputs
Begins(r) == reqs[r].pc = "idle" /\ reqs'[r].pc # "idle"

\* the request that enters slot r comes with a valid access token
Authenticated(r) == reqs'[r].person \in Persons

PermissionMessages == {"You do not have permission to update this task.",
                       "You do not have permission to delete this task."}

\* the record a get_task_by_id finds for the task the response of slot r names
CreatedLookup(r) == get_task_by_id(reqs[r].resp.tasks[1].entity_id)

\* the record a get_task_by_id finds for the task the request of slot r names
TargetLookup(r) == get_task_by_id(reqs[r].task_id)

\* the ids in the listing of person p
ListedIds(p) ==
    LET l == get_tasks_by_person_id(p) IN {l[k].entity_id : k \in 1..Len(l)}

(* ---------------------------- C1 --------------------------------------- *)
\* C1: a POST /tasks by an authenticated person with a title that is not blank
\* appends one task, whose title is the trimmed title, completed = FALSE,
\* active = TRUE and person_id = the person; a get_task_by_id on the returned
\* entity_id right after the request returns that record.
C1_PostStoresTrimmedTask ==
    [][\A r \in Slots :
         (/\ Begins(r)
          /\ reqs'[r].op = "POST /tasks"
          /\ Authenticated(r)
          /\ ~IsNone(reqs'[r].title)
          /\ ~IsBlank(Val(reqs'[r].title)))
         => /\ reqs'[r].pc = "done"
            /\ reqs'[r].resp.success
            /\ Len(reqs'[r].resp.tasks) = 1
            /\ reqs'[r].resp.tasks[1].entity_id \notin DOMAIN tasks
            /\ Len(tasks') = Len(tasks) + 1
            /\ ~IsNone(CreatedLookup(r)')
            /\ IsTrimOf(Val(CreatedLookup(r)').title, Val(reqs'[r].title))
            /\ Val(CreatedLookup(r)').completed = FALSE
            /\ Val(CreatedLookup(r)').active = TRUE
            /\ Val(CreatedLookup(r)').person_id = reqs'[r].person
            /\ Val(CreatedLookup(r)').entity_id = reqs'[r].resp.tasks[1].entity_id
    ]_vars

\* a padded title has been posted and its trimmed form is stored
C1_Witness ==
    \E r \in Slots :
        /\ reqs[r].pc = "done"
        /\ reqs[r].op = "POST /tasks"
        /\ reqs[r].title = Some(<<" ", "a", " ", "b", " ">>)
        /\ reqs[r].resp.success
        /\ Val(CreatedLookup(r)).title = <<"a", " ", "b">>
        /\ Val(CreatedLookup(r)).person_id = "P2"

(* ---------------------------- C2 --------------------------------------- *)
\* C2: a POST /tasks whose title is missing, empty or whitespace-only is
\* rejected (HTTP 200, success = FALSE) and the stored tasks are the same
\* before and after the request.
C2_PostBlankTitleRejected ==
    [][\A r \in Slots :
         (/\ Begins(r)
          /\ reqs'[r].op = "POST /tasks"
          /\ Authenticated(r)
          /\ (IsNone(reqs'[r].title) \/ IsBlank(Val(reqs'[r].title))))
         => /\ reqs'[r].pc = "done"
            /\ ~reqs'[r].resp.success
            /\ reqs'[r].resp.status = 200
            /\ reqs'[r].resp.tasks = <<>>
            /\ tasks' = tasks
    ]_vars

\* a whitespace-only title has been rejected while a task is stored
C2_Witness ==
    \E r \in Slots :
        /\ reqs[r].pc = "done"
        /\ reqs[r].op = "POST /tasks"
        /\ reqs[r].title = Some(<<" ", " ">>)
        /\ ~reqs[r].resp.success
        /\ Len(tasks) = 1

(* ---------------------------- C3 --------------------------------------- *)
\* C3: in every state and for every person p, the listing of p holds exactly
\* the stored tasks with person_id = p and active = TRUE, each once and as
\* stored; a GET /tasks by p answers with success and that list, the empty
\* list when p has no active task.
C3_ListingIsOwnActiveTasks ==
    /\ \A p \in Persons :
          LET l == get_tasks_by_person_id(p)
          IN /\ ListedIds(p) = {i \in DOMAIN tasks :
                                   tasks[i].person_id = p /\ tasks[i].active}
             /\ Len(l) = Cardinality(ListedIds(p))
             /\ \A k \in 1..Len(l) : l[k] = tasks[l[k].entity_id]
    /\ \A r \in Slots :
          (reqs[r].pc = "done" /\ reqs[r].op = "GET /tasks" /\ reqs[r].person \in Persons)
          => /\ reqs[r].resp.success
             /\ reqs[r].resp.status = 200
             /\ \A k \in 1..Len(reqs[r].resp.tasks) :
                   /\ reqs[r].resp.tasks[k].person_id = reqs[r].person
                   /\ reqs[r].resp.tasks[k].active
             /\ {reqs[r].resp.tasks[k].entity_id : k \in 1..Len(reqs[r].resp.tasks)}
                  = {i \in DOMAIN tasks :
                        tasks[i].person_id = reqs[r].person /\ tasks[i].active}

\* a listing that leaves out a deleted task of the same person
C3_Witness ==
    \E r \in Slots :
        /\ reqs[r].pc = "done"
        /\ reqs[r].op = "GET /tasks"
        /\ reqs[r].person = "P1"
        /\ Len(reqs[r].resp.tasks) = 1
        /\ Len(tasks) = 2
        /\ \A i \in DOMAIN tasks : tasks[i].person_id = "P1"

(* ---------------------------- C4 --------------------------------------- *)
\* C4: once a task has been deleted it is in no later listing, whatever
\* requests follow or were in flight when the delete ran.
C4_DeletedStaysOutOfListing ==
    [][\A i \in DOMAIN tasks :
         ~tasks[i].active => \A p \in Persons : i \notin ListedIds(p)'
    ]_vars

(* ---------------------------- C5 --------------------------------------- *)
\* C5: the save of a PUT /tasks/{id} changes only the supplied fields of the
\* task: a title that was not supplied and a completed that was not supplied
\* stay as stored, a supplied title is stored trimmed, a supplied boolean is
\* stored; person_id, entity_id and active stay; no record is added; the
\* get_task_by_id after the save returns the stored record and the response
\* carries it.
C5_PutChangesOnlySuppliedFields ==
    [][\A r \in Slots :
         /\ (reqs[r].pc = "put_save" /\ reqs'[r].pc = "put_refetch")
            => LET id == reqs[r].task_id
                   t == reqs[r].title
                   c == reqs[r].completed
               IN /\ id \in DOMAIN tasks
                  /\ DOMAIN tasks' = DOMAIN tasks
                  /\ IsNone(t) => tasks'[id].title = tasks[id].title
                  /\ ~IsNone(t) => IsTrimOf(tasks'[id].title, Val(t))
                  /\ c = "null" => tasks'[id].completed = tasks[id].completed
                  /\ c = "true" => tasks'[id].completed = TRUE
                  /\ c = "false" => tasks'[id].completed = FALSE
                  /\ tasks'[id].person_id = tasks[id].person_id
                  /\ tasks'[id].entity_id = tasks[id].entity_id
                  /\ tasks'[id].active = tasks[id].active
                  /\ TargetLookup(r)' = Some(tasks'[id])
         /\ (reqs[r].pc = "put_refetch" /\ reqs'[r].pc = "done")
            => /\ reqs'[r].resp.success
               /\ reqs'[r].resp.tasks = <<tasks[reqs[r].task_id]>>
               /\ tasks' = tasks
    ]_vars

\* a title-only update of a completed task has kept completed = TRUE
C5_Witness ==
    \E r \in Slots :
        /\ reqs[r].pc = "done"
        /\ reqs[r].op = "PUT /tasks/id"
        /\ reqs[r].title = Some(<<" ", "a", " ", "b", " ">>)
        /\ reqs[r].completed = "null"
        /\ reqs[r].resp.success
        /\ reqs[r].resp.tasks[1].title = <<"a", " ", "b">>
        /\ reqs[r].resp.tasks[1].completed = TRUE

(* ---------------------------- C6 --------------------------------------- *)
\* C6: an update or delete request on an active task of another person ends
\* with the permission failure and leaves the stored tasks unchanged, and a
\* step that changes a stored task is a step of a request of its owner.
C6_NonOwnerGetsPermissionFailure ==
    [][/\ \A r \in Slots :
            (/\ Begins(r)
             /\ reqs'[r].op \in {"PUT /tasks/id", "DELETE /tasks/id"}
             /\ Authenticated(r)
             /\ ~IsNone(get_task_by_id(reqs'[r].task_id))
             /\ Val(get_task_by_id(reqs'[r].task_id)).person_id # reqs'[r].person)
            => /\ reqs'[r].pc = "done"
               /\ reqs'[r].resp.message \in PermissionMessages
               /\ tasks' = tasks
       /\ \A i \in DOMAIN tasks :
            tasks'[i] # tasks[i]
            => \E r \in Slots : /\ reqs[r].pc \in {"put_save", "delete_save"}
                                /\ reqs[r].task_id = i
                                /\ reqs[r].person = tasks[i].person_id
    ]_vars

(* ---------------------------- C7 --------------------------------------- *)
\* C7: a PUT /tasks/{id} with neither title nor completed, on an active task
\* of P1 with P2 acting, ends with the permission failure, and the stored
\* tasks are unchanged.
C7_EmptyUpdateByNonOwnerIsPermissionFailure ==
    [][\A r \in Slots :
         (/\ Begins(r)
          /\ reqs'[r].op = "PUT /tasks/id"
          /\ reqs'[r].person = "P2"
          /\ IsNone(reqs'[r].title)
          /\ reqs'[r].completed = "null"
          /\ ~IsNone(get_task_by_id(reqs'[r].task_id))
          /\ Val(get_task_by_id(reqs'[r].task_id)).person_id = "P1")
         => /\ reqs'[r].pc = "done"
            /\ reqs'[r].resp.message = "You do not have permission to update this task."
            /\ tasks' = tasks
    ]_vars

(* ---------------------------- C8 --------------------------------------- *)
\* C8: an update or delete request gets 'Task not found.' exactly when its id
\* resolves to no active task, and the permission failure exactly when an
\* active task with that id exists whose person_id is not the acting person.
C8_NotFoundAndPermissionExact ==
    [][\A r \in Slots :
         (/\ Begins(r)
          /\ reqs'[r].op \in {"PUT /tasks/id", "DELETE /tasks/id"}
          /\ Authenticated(r))
         => /\ (reqs'[r].resp.message = "Task not found.")
                <=> IsNone(get_task_by_id(reqs'[r].task_id))
            /\ (reqs'[r].resp.message \in PermissionMessages)
                <=> (/\ ~IsNone(get_task_by_id(reqs'[r].task_id))
                     /\ Val(get_task_by_id(reqs'[r].task_id)).person_id # reqs'[r].person)
    ]_vars

(* ---------------------------- C9 --------------------------------------- *)
\* C9: in PUT /tasks/{id} and in PUT /person/me, the 'At least one ... must be
\* provided' failure is returned exactly when every optional field is absent,
\* and a request with a provided field that is blank gets a 'cannot be empty
\* if provided' failure.
AtLeastOneMessages ==
    {"At least one of 'title' or 'completed' must be provided.",
     "At least one of 'first_name' or 'last_name' must be provided."}

EmptyFieldMessages ==
    {"'title' cannot be empty if provided.",
     "'first_name' cannot be empty if provided.",
     "'last_name' cannot be empty if provided."}

C9_EmptyFieldIsNotAbsentField ==
    \A r \in Slots :
        /\ (reqs[r].pc = "done" /\ reqs[r].op = "PUT /tasks/id" /\ reqs[r].person \in Persons)
           => /\ (reqs[r].resp.message \in AtLeastOneMessages)
                  <=> (IsNone(reqs[r].title) /\ reqs[r].completed = "null")
              /\ (~IsNone(reqs[r].title) /\ IsBlank(Val(reqs[r].title)))
                  => reqs[r].resp.message \in EmptyFieldMessages
        /\ (reqs[r].pc = "done" /\ reqs[r].op = "PUT /person/me" /\ reqs[r].person \in Persons)
           => /\ (reqs[r].resp.message \in AtLeastOneMessages)
                  <=> (IsNone(reqs[r].first_name) /\ IsNone(reqs[r].last_name))
              /\ (\/ (~IsNone(reqs[r].first_name) /\ IsBlank(Val(reqs[r].first_name)))
                  \/ (~IsNone(reqs[r].last_name) /\ IsBlank(Val(reqs[r].last_name))))
                  => reqs[r].resp.message \in EmptyFieldMessages

(* ---------------------------- C10 -------------------------------------- *)
\* C10: a PUT /tasks/{id} by the owner of an active task with completed = false
\* and no title is accepted, its save stores completed = FALSE whatever was
\* stored before, and its response is a success carrying completed = FALSE.
C10_CompletedFalseIsPresent ==
    [][\A r \in Slots :
         /\ (/\ Begins(r)
             /\ reqs'[r].op = "PUT /tasks/id"
             /\ IsNone(reqs'[r].title)
             /\ reqs'[r].completed = "false"
             /\ ~IsNone(get_task_by_id(reqs'[r].task_id))
             /\ Val(get_task_by_id(reqs'[r].task_id)).person_id = reqs'[r].person)
            => /\ reqs'[r].pc = "put_save"
               /\ Val(reqs'[r].obj).completed = FALSE
         /\ (/\ reqs[r].pc = "put_save"
             /\ IsNone(reqs[r].title)
             /\ reqs[r].completed = "false"
             /\ reqs'[r].pc # "put_save")
            => /\ reqs'[r].pc = "put_refetch"
               /\ tasks'[reqs[r].task_id].completed = FALSE
         /\ (/\ reqs[r].pc = "put_refetch"
             /\ IsNone(reqs[r].title)
             /\ reqs[r].completed = "false"
             /\ reqs'[r].pc # "put_refetch")
            => /\ reqs'[r].pc = "done"
               /\ reqs'[r].resp.success
               /\ reqs'[r].resp.tasks[1].completed = FALSE
               /\ tasks[reqs[r].task_id].completed = FALSE
    ]_vars

\* a completed = false update, accepted, is about to overwrite a stored TRUE
C10_Witness ==
    \E r \in Slots :
        /\ reqs[r].pc = "put_save"
        /\ IsNone(reqs[r].title)
        /\ reqs[r].completed = "false"
        /\ tasks[reqs[r].task_id].completed = TRUE
        /\ Val(reqs[r].obj).completed = FALSE

(* ---------------------------- C11 -------------------------------------- *)
\* C11: a PUT /tasks/{id} with neither title nor completed ends with the
\* at-least-one-field failure, and one with a blank title, with or without a
\* completed, ends with the empty-title failure; both are HTTP 200 with
\* success = FALSE and leave the stored tasks unchanged.
C11_PutInvalidBodyRejected ==
    [][\A r \in Slots :
         (/\ Begins(r)
          /\ reqs'[r].op = "PUT /tasks/id"
          /\ Authenticated(r))
         => /\ (IsNone(reqs'[r].title) /\ reqs'[r].completed = "null")
               => /\ reqs'[r].pc = "done"
                  /\ reqs'[r].resp.message \in AtLeastOneMessages
            /\ (~IsNone(reqs'[r].title) /\ IsBlank(Val(reqs'[r].title)))
               => /\ reqs'[r].pc = "done"
                  /\ reqs'[r].resp.message = "'title' cannot be empty if provided."
            /\ reqs'[r].resp.message \in (AtLeastOneMessages \cup EmptyFieldMessages)
               => /\ ~reqs'[r].resp.success
                  /\ reqs'[r].resp.status = 200
                  /\ tasks' = tasks
    ]_vars

\* a blank title with a valid completed has been rejected on the owner's task
C11_Witness ==
    \E r \in Slots :
        /\ reqs[r].pc = "done"
        /\ reqs[r].op = "PUT /tasks/id"
        /\ reqs[r].title = Some(<<" ", " ">>)
        /\ reqs[r].completed = "true"
        /\ ~reqs[r].resp.success
        /\ ~IsNone(TargetLookup(r))
        /\ Val(TargetLookup(r)).person_id = reqs[r].person
        /\ Val(TargetLookup(r)).completed = FALSE

(* ---------------------------- C12 -------------------------------------- *)
\* the record a get_person_by_id finds for the person of the request of slot r
PersonLookup(r) == get_person_by_id(reqs[r].person)

\* C12: the save of a PUT /person/me stores the trimmed value of each supplied
\* name and leaves a name that was not supplied as stored; the
\* get_person_by_id after the save returns the stored record and the
\* response carries it.
C12_MePutStoresSuppliedNames ==
    [][\A r \in Slots :
         /\ (reqs[r].pc = "me_save" /\ reqs'[r].pc = "me_refetch")
            => LET p == reqs[r].person
                   fn == reqs[r].first_name
                   ln == reqs[r].last_name
               IN /\ IsNone(fn) => persons'[p].first_name = persons[p].first_name
                  /\ ~IsNone(fn) => IsTrimOf(persons'[p].first_name, Val(fn))
                  /\ IsNone(ln) => persons'[p].last_name = persons[p].last_name
                  /\ ~IsNone(ln) => IsTrimOf(persons'[p].last_name, Val(ln))
                  /\ persons'[p].entity_id = p
                  /\ PersonLookup(r)' = Some(persons'[p])
         /\ (reqs[r].pc = "me_refetch" /\ reqs'[r].pc = "done")
            => /\ reqs'[r].resp.success
               /\ reqs'[r].resp.person = Some(persons[reqs[r].person])
               /\ persons' = persons
    ]_vars

\* a first_name-only update after a last_name-only update has kept the last name
C12_Witness ==
    \E r \in Slots :
        /\ reqs[r].pc = "done"
        /\ reqs[r].op = "PUT /person/me"
        /\ reqs[r].first_name = Some(<<" ", "a", " ", "b", " ">>)
        /\ IsNone(reqs[r].last_name)
        /\ reqs[r].resp.success
        /\ Val(reqs[r].resp.person).first_name = <<"a", " ", "b">>
        /\ Val(reqs[r].resp.person).last_name = <<"a">>

(* ---------------------------- C13 -------------------------------------- *)
\* C13: a PUT /person/me with no name, or with a supplied name that is blank
\* (also when the other supplied name is valid), is rejected (HTTP 200,
\* success = FALSE) and the stored persons are unchanged.
C13_MePutInvalidBodyRejected ==
    [][\A r \in Slots :
         (/\ Begins(r)
          /\ reqs'[r].op = "PUT /person/me"
          /\ Authenticated(r)
          /\ \/ (IsNone(reqs'[r].first_name) /\ IsNone(reqs'[r].last_name))
             \/ (~IsNone(reqs'[r].first_name) /\ IsBlank(Val(reqs'[r].first_name)))
             \/ (~IsNone(reqs'[r].last_name) /\ IsBlank(Val(reqs'[r].last_name))))
         => /\ reqs'[r].pc = "done"
            /\ ~reqs'[r].resp.success
            /\ reqs'[r].resp.status = 200
            /\ reqs'[r].resp.person = <<>>
            /\ persons' = persons
    ]_vars

\* a valid first_name with a blank last_name has been rejected
C13_Witness ==
    \E r \in Slots :
        /\ reqs[r].pc = "done"
        /\ reqs[r].op = "PUT /person/me"
        /\ reqs[r].first_name = Some(<<"a">>)
        /\ reqs[r].last_name = Some(<<" ", " ">>)
        /\ reqs[r].resp.message = "'last_name' cannot be empty if provided."
        /\ persons["P1"].first_name = <<"t">>

(* ---------------------------- C14 -------------------------------------- *)
\* C14: get_task_by_id of a soft-deleted task returns None, and a PUT or a
\* DELETE on its id, by anyone, ends with 'Task not found.' and leaves the
\* stored tasks unchanged.
C14_DeletedTaskIsNotFound ==
    [][/\ \A r \in Slots :
            (/\ Begins(r)
             /\ reqs'[r].op \in {"PUT /tasks/id", "DELETE /tasks/id"}
             /\ Authenticated(r)
             /\ reqs'[r].task_id \in DOMAIN tasks
             /\ ~tasks[reqs'[r].task_id].active)
            => /\ IsNone(get_task_by_id(reqs'[r].task_id))
               /\ reqs'[r].pc = "done"
               /\ reqs'[r].resp.message = "Task not found."
               /\ tasks' = tasks
       /\ \A i \in DOMAIN tasks : ~tasks[i].active => IsNone(get_task_by_id(i)')
    ]_vars

(* ---------------------------- C15 -------------------------------------- *)
\* C15: the save of a DELETE /tasks/{id} keeps the record in the store, with
\* active = FALSE and its entity_id, person_id, title and completed as they
\* were, and no step lowers the number of stored task records or drops one.
C15_SoftDeleteKeepsRecord ==
    [][/\ \A r \in Slots :
            (reqs[r].pc = "delete_save" /\ reqs'[r].pc # "delete_save")
            => LET id == reqs[r].task_id
               IN /\ reqs'[r].pc = "done"
                  /\ reqs'[r].resp.success
                  /\ id \in DOMAIN tasks'
                  /\ tasks'[id].active = FALSE
                  /\ tasks'[id].entity_id = tasks[id].entity_id
                  /\ tasks'[id].person_id = tasks[id].person_id
                  /\ tasks'[id].title = tasks[id].title
                  /\ tasks'[id].completed = tasks[id].completed
       /\ Len(tasks') >= Len(tasks)
       /\ \A i \in DOMAIN tasks : i \in DOMAIN tasks' /\ tasks'[i].entity_id = i
    ]_vars

\* a completed task has been deleted and its record is still stored
C15_Witness ==
    \E r \in Slots :
        /\ reqs[r].pc = "done"
        /\ reqs[r].op = "DELETE /tasks/id"
        /\ reqs[r].resp.success
        /\ reqs[r].task_id \in DOMAIN tasks
        /\ tasks[reqs[r].task_id].active = FALSE
        /\ tasks[reqs[r].task_id].completed = TRUE
        /\ tasks[reqs[r].task_id].title = <<"a", " ", "b">>

(* ---------------------------- C16 -------------------------------------- *)
\* the listing of p runs from the latest changed_on to the earliest
ListingSorted(p) ==
    LET l == get_tasks_by_person_id(p)
    IN \A k \in 1..Len(l) : \A m \in 1..Len(l) :
          k < m => l[k].changed_on >= l[m].changed_on

\* the id of the first task in the listing of p (0 for an empty listing)
FirstListed(p) ==
    LET l == get_tasks_by_person_id(p) IN IF l = <<>> THEN 0 ELSE l[1].entity_id

\* C16: every listing is in descending order of changed_on, a GET /tasks
\* returns it in that order, and the task that a POST or a PUT has just saved
\* is the first of its owner's listing.
C16_ListingMostRecentFirst ==
    [][/\ \A p \in Persons : ListingSorted(p)'
       /\ \A r \in Slots :
            /\ (reqs'[r].pc = "done" /\ reqs'[r].op = "GET /tasks" /\ Authenticated(r))
               => \A k \in 1..Len(reqs'[r].resp.tasks) :
                     \A m \in 1..Len(reqs'[r].resp.tasks) :
                        k < m => reqs'[r].resp.tasks[k].changed_on
                                   > reqs'[r].resp.tasks[m].changed_on
            /\ (reqs[r].pc = "put_save" /\ reqs'[r].pc = "put_refetch")
               => \A p \in Persons :
                     reqs[r].person = p => FirstListed(p)' = reqs[r].task_id
            /\ (/\ Begins(r)
                /\ reqs'[r].op = "POST /tasks"
                /\ reqs'[r].resp.success)
               => \A p \in Persons :
                     reqs'[r].person = p
                     => FirstListed(p)' = reqs'[r].resp.tasks[1].entity_id
    ]_vars

\* a listing in which the task created first, updated last, comes first
C16_Witness ==
    \E r \in Slots :
        /\ reqs[r].pc = "done"
        /\ reqs[r].op = "GET /tasks"
        /\ Len(reqs[r].resp.tasks) = 2
        /\ reqs[r].resp.tasks[1].entity_id = 1
        /\ reqs[r].resp.tasks[2].entity_id = 2

(* ---------------------------- C17 -------------------------------------- *)
\* C17: no step, of whatever interleaving of create, update and delete
\* requests, changes the entity_id or the person_id of a stored task.
C17_IdentityAndOwnerNeverChange ==
    [][\A i \in DOMAIN tasks :
         /\ i \in DOMAIN tasks'
         /\ tasks'[i].entity_id = tasks[i].entity_id
         /\ tasks'[i].person_id = tasks[i].person_id
    ]_vars

\* a task of P1 that has been created, updated and deleted
C17_Witness ==
    \E i \in DOMAIN tasks :
        /\ tasks[i].entity_id = i
        /\ tasks[i].person_id = "P1"
        /\ tasks[i].completed = TRUE
        /\ tasks[i].active = FALSE
        /\ tasks[i].changed_on = 3

(* ---------------------------- C18 -------------------------------------- *)
\* C18: in every state, the title of every stored task is not empty and has
\* no whitespace at its start or at its end.
C18_StoredTitlesTrimmed ==
    \A i \in DOMAIN tasks :
        /\ tasks[i].title # <<>>
        /\ tasks[i].title[1] # " "
        /\ tasks[i].title[Len(tasks[i].title)] # " "

\* a task created with a plain title whose title a padded update has replaced
C18_Witness ==
    \E r \in Slots :
        /\ reqs[r].pc = "done"
        /\ reqs[r].op = "PUT /tasks/id"
        /\ reqs[r].title = Some(<<" ", "a", " ", "b", " ">>)
        /\ reqs[r].resp.success
        /\ tasks[reqs[r].task_id].title = <<"a", " ", "b">>
        /\ tasks[reqs[r].task_id].changed_on = 2

(* ---------------------------- C19 -------------------------------------- *)
\* C19: a request that ends with a failure response (HTTP 200 or 401 with
\* success = false: a validation, not-found, permission or authentication
\* failure) ends in the step in which it began, and that step leaves every
\* task record, every person record and the time of the last save as they
\* were: nothing is created and nothing is modified.
C19_FailureLeavesStoreUnchanged ==
    [][\A r \in Slots :
         (/\ reqs[r].pc # "done"
          /\ reqs'[r].pc = "done"
          /\ ~reqs'[r].resp.success
          /\ reqs'[r].resp.status \in {200, 401})
         => /\ reqs[r].pc = "idle"
            /\ tasks' = tasks
            /\ persons' = persons
            /\ clock' = clock
    ]_vars

\* P2 sent a valid update for the stored task of P1 and got the permission
\* failure; the task is as it was created
C19_Witness ==
    \E r \in Slots :
        /\ reqs[r].pc = "done"
        /\ reqs[r].op = "PUT /tasks/id"
        /\ reqs[r].person = "P2"
        /\ reqs[r].title = Some(<<" ", "a", " ", "b", " ">>)
        /\ reqs[r].resp = InputValidationError("You do not have permission to update this task.")
        /\ reqs[r].task_id \in DOMAIN tasks
        /\ tasks[reqs[r].task_id].person_id = "P1"
        /\ tasks[reqs[r].task_id].changed_on = 1

(* ---------------------------- C20 -------------------------------------- *)
\* the task a request names is not stored or is deleted
NamesNoTask(rq) == rq.task_id \notin DOMAIN tasks \/ ~tasks[rq.task_id].active

\* the request asks for something its body or its target does not allow:
\* a validation, a not-found or a permission failure
MustFail(rq) ==
    \/ /\ rq.op = "POST /tasks"
       /\ (IsNone(rq.title) \/ IsBlank(Val(rq.title)))
    \/ /\ rq.op = "PUT /tasks/id"
       /\ \/ IsNone(rq.title) /\ rq.completed = "null"
          \/ ~IsNone(rq.title) /\ IsBlank(Val(rq.title))
          \/ NamesNoTask(rq)
          \/ tasks[rq.task_id].person_id # rq.person
    \/ /\ rq.op = "DELETE /tasks/id"
       /\ (NamesNoTask(rq) \/ tasks[rq.task_id].person_id # rq.person)
    \/ /\ rq.op = "PUT /person/me"
       /\ \/ IsNone(rq.first_name) /\ IsNone(rq.last_name)
          \/ ~IsNone(rq.first_name) /\ IsBlank(Val(rq.first_name))
          \/ ~IsNone(rq.last_name) /\ IsBlank(Val(rq.last_name))

\* C20: a request with a valid token that must fail on validation, on a
\* missing task or on ownership ends with HTTP 200, success = false and a
\* message that is not empty; a request with a missing or an invalid token
\* ends with HTTP 401 and success = false, having fetched no record, with no
\* data in the response and the store as it was; and the success of every
\* response is a boolean.
C20_FailureStatusCodes ==
    [][\A r \in Slots :
         /\ (Begins(r) /\ Authenticated(r) /\ MustFail(reqs'[r]))
            => /\ reqs'[r].pc = "done"
               /\ reqs'[r].resp.status = 200
               /\ reqs'[r].resp.success = FALSE
               /\ reqs'[r].resp.message # ""
         /\ (Begins(r) /\ ~Authenticated(r))
            => /\ reqs'[r].pc = "done"
               /\ reqs'[r].resp.status = 401
               /\ reqs'[r].resp.success = FALSE
               /\ reqs'[r].obj = <<>>
               /\ reqs'[r].resp.tasks = <<>>
               /\ reqs'[r].resp.person = <<>>
               /\ UNCHANGED <<tasks, persons, clock>>
         /\ reqs'[r].pc = "done"
            => /\ reqs'[r].resp.success \in BOOLEAN
               /\ reqs'[r].resp.status = 401 <=> reqs'[r].person \notin Persons
    ]_vars

\* a request with an invalid token got the 401 while a task is stored
C20_Witness ==
    \E r \in Slots :
        /\ reqs[r].pc = "done"
        /\ reqs[r].op = "PUT /person/me"
        /\ reqs[r].resp.status = 401
        /\ reqs[r].resp.message = "Access token is invalid"
        /\ \E i \in DOMAIN tasks : tasks[i].active

(* ---------------------------- C21 -------------------------------------- *)
\* slot r performs a save of a task in this step
SavesTask(r) ==
    \/ reqs[r].pc = "put_save" /\ reqs'[r].pc = "put_refetch"
    \/ reqs[r].pc = "delete_save" /\ reqs'[r].pc = "done"

\* slot r performs the save of a person in this step
SavesPerson(r) == reqs[r].pc = "me_save" /\ reqs'[r].pc = "me_refetch"

\* C21: no step lowers the changed_on of a task or of a person; a task that
\* a step creates, and the record that an update or a soft delete saves,
\* carries afterwards the time of that save as its changed_on, which is not
\* below the value it had.
C21_ChangedOnSetAndMonotonic ==
    [][/\ \A i \in DOMAIN tasks :
            i \in DOMAIN tasks' /\ tasks'[i].changed_on >= tasks[i].changed_on
       /\ \A p \in Persons : persons'[p].changed_on >= persons[p].changed_on
       /\ \A i \in DOMAIN tasks' : i \notin DOMAIN tasks => tasks'[i].changed_on = clock'
       /\ \A r \in Slots :
            /\ SavesTask(r) => tasks'[reqs[r].task_id].changed_on = clock'
            /\ SavesPerson(r) => persons'[reqs[r].person].changed_on = clock'
    ]_vars

\* a task created, a person updated after it, and the task deleted after that
C21_Witness ==
    \E i \in DOMAIN tasks :
        /\ ~tasks[i].active
        /\ tasks[i].changed_on = 3
        /\ persons[tasks[i].person_id].changed_on = 2

(* ---------------------------- C22 -------------------------------------- *)
\* C22: the step in which a POST /tasks, a PUT /tasks/{id} or a PUT
\* /person/me produces its success response performs no save, the save
\* having been done before it, and the record in the response is the one a
\* lookup by id finds in the store at that step.
C22_ResponseIsRefetchedRecord ==
    [][\A r \in Slots :
         (/\ reqs[r].pc # "done"
          /\ reqs'[r].pc = "done"
          /\ reqs'[r].resp.success
          /\ reqs'[r].op \in {"POST /tasks", "PUT /tasks/id", "PUT /person/me"})
         => /\ UNCHANGED <<tasks, persons, clock>>
            /\ reqs'[r].op \in {"POST /tasks", "PUT /tasks/id"}
                 => /\ Len(reqs'[r].resp.tasks) = 1
                    /\ ~IsNone(get_task_by_id(reqs'[r].resp.tasks[1].entity_id))
                    /\ reqs'[r].resp.tasks[1] =
                          Val(get_task_by_id(reqs'[r].resp.tasks[1].entity_id))
            /\ reqs'[r].op = "PUT /person/me"
                 => reqs'[r].resp.person = get_person_by_id(reqs'[r].person)
    ]_vars

(* ---------------------------- C23 -------------------------------------- *)
\* two records with the same fields, changed_on apart
SameFields(a, b) == [a EXCEPT !.changed_on = 0] = [b EXCEPT !.changed_on = 0]

\* slot r holds the success response of an update of task i
UpdatedTask(r, i) ==
    /\ reqs[r].pc = "done"
    /\ reqs[r].op = "PUT /tasks/id"
    /\ reqs[r].task_id = i
    /\ reqs[r].resp.success

\* slot r holds the success response of an update of person p
UpdatedPerson(r, p) ==
    /\ reqs[r].pc = "done"
    /\ reqs[r].op = "PUT /person/me"
    /\ reqs[r].person = p
    /\ reqs[r].resp.success

\* C23: with update requests interleaved, a stored record changes only in
\* the save of a request, and after that save it is the whole record that
\* request held, whatever another request saved in between; an update that
\* has passed its checks is never rejected: its re-fetch finds the record and
\* it ends with a success response; and when two updates of the same task
\* (or person) have both ended, the stored record has the fields of the
\* record one of them saved.
C23_LastWriteWins ==
    [][/\ \A r \in Slots :
            /\ SavesTask(r) => SameFields(tasks'[reqs[r].task_id], Val(reqs[r].obj))
            /\ SavesPerson(r) => SameFields(persons'[reqs[r].person], Val(reqs[r].obj))
            /\ (reqs[r].pc \in {"put_refetch", "me_refetch"} /\ reqs'[r].pc # reqs[r].pc)
                 => reqs'[r].pc = "done" /\ reqs'[r].resp.success
       /\ \A i \in DOMAIN tasks :
            tasks'[i] # tasks[i] => \E r \in Slots : SavesTask(r) /\ reqs[r].task_id = i
       /\ \A p \in Persons :
            persons'[p] # persons[p] => \E r \in Slots : SavesPerson(r) /\ reqs[r].person = p
       /\ \A i \in DOMAIN tasks' :
            (UpdatedTask(1, i)' /\ UpdatedTask(2, i)')
            => \E r \in Slots : SameFields(tasks'[i], Val(reqs'[r].obj))
       /\ \A p \in Persons :
            (UpdatedPerson(1, p)' /\ UpdatedPerson(2, p)')
            => \E r \in Slots : SameFields(persons'[p], Val(reqs'[r].obj))
    ]_vars

\* two updates of task 1 that both fetched it before either saved, one of
\* the title and one of completed, have both ended; the second save is stored
C23_Witness ==
    /\ UpdatedTask(1, 1)
    /\ UpdatedTask(2, 1)
    /\ Val(reqs[1].obj).changed_on = 1
    /\ Val(reqs[2].obj).changed_on = 1
    /\ ~SameFields(Val(reqs[1].obj), Val(reqs[2].obj))
    /\ tasks[1].changed_on = 3

(* ---------------------------- C24 -------------------------------------- *)
\* C24: when an update request that has assigned its fields and stands before
\* its save takes a step in which no save is made (the save has failed), the
\* request ends in that step with a response that is not a success, and the
\* tasks and the persons of the store, and so what every later lookup and
\* listing returns, are as they were before the request.
C24_FailedSaveIsNotSuccess ==
    [][\A r \in Slots :
         (/\ reqs[r].pc \in {"put_save", "me_save"}
          /\ reqs'[r] # reqs[r]
          /\ clock' = clock)
         => /\ reqs'[r].pc = "done"
            /\ ~reqs'[r].resp.success
            /\ reqs'[r].resp.tasks = <<>>
            /\ reqs'[r].resp.person = <<>>
            /\ tasks' = tasks
            /\ persons' = persons
            /\ get_task_by_id(reqs[r].task_id)' = get_task_by_id(reqs[r].task_id)
            /\ get_person_by_id(reqs[r].person)' = get_person_by_id(reqs[r].person)
    ]_vars

\* an update of a stored task whose save failed: the object the handler
\* holds has the new completed value, the stored task has the old one
C24_Witness ==
    \E r \in Slots :
        /\ reqs[r].pc = "done"
        /\ reqs[r].op = "PUT /tasks/id"
        /\ ~reqs[r].resp.success
        /\ ~IsNone(reqs[r].obj)
        /\ Val(reqs[r].obj).completed = TRUE
        /\ tasks[reqs[r].task_id].completed = FALSE
        /\ tasks[reqs[r].task_id].changed_on = 1

(* ---------------------------- C25 -------------------------------------- *)
\* C25: when an update of task i that supplied only a title and an update of
\* task i that supplied only completed have both ended with a success
\* response, the stored task has the trimmed title of the first and the
\* completed value of the second.
C25_InterleavedPartialUpdatesBothKept ==
    \A i \in DOMAIN tasks : \A r \in Slots, q \in Slots :
        (/\ UpdatedTask(r, i)
         /\ UpdatedTask(q, i)
         /\ ~IsNone(reqs[r].title) /\ reqs[r].completed = "null"
         /\ IsNone(reqs[q].title) /\ reqs[q].completed # "null")
        => /\ IsTrimOf(tasks[i].title, Val(reqs[r].title))
           /\ tasks[i].completed = (reqs[q].completed = "true")

(* ---------------------------- C26 -------------------------------------- *)
\* C26: the re-fetch of an update that has passed its checks and has saved
\* finds the task, and the request ends with a structured response: HTTP 200
\* with success and the re-fetched record; also when a delete of the task ran
\* between the save and the re-fetch.
C26_PutRefetchNeverNone ==
    [][\A r \in Slots :
         (reqs[r].pc = "put_refetch" /\ reqs'[r].pc = "done")
         => /\ ~IsNone(get_task_by_id(reqs[r].task_id))
            /\ reqs'[r].resp.status = 200
            /\ reqs'[r].resp.success
            /\ reqs'[r].resp.tasks = <<Val(get_task_by_id(reqs[r].task_id))>>
    ]_vars

(* ---------------------------- C27 -------------------------------------- *)
\* the tasks that this step creates or changes
ChangedTasks == {i \in DOMAIN tasks' : i \notin DOMAIN tasks \/ tasks'[i] # tasks[i]}

\* the persons that this step changes
ChangedPersons == {p \in Persons : persons'[p] # persons[p]}

\* C27: no step removes a task, and every step changes at most one stored
\* record. A step of a POST /tasks changes no person and no task other than
\* the one it creates; a step of a PUT or DELETE /tasks/{id} changes no person
\* and no task other than the one the request names; a step of a PUT
\* /person/me changes no task and no person other than the requester; a step
\* of a GET, of a request without a valid token, or the sending of a response
\* changes nothing.
C27_OnlyTheTargetChanges ==
    [][/\ DOMAIN tasks \subseteq DOMAIN tasks'
       /\ Cardinality(ChangedTasks) + Cardinality(ChangedPersons) <= 1
       /\ \A r \in Slots :
            reqs'[r] # reqs[r]
            => IF reqs'[r].person \notin Persons
               THEN ChangedTasks = {} /\ ChangedPersons = {}
               ELSE IF reqs'[r].op = "POST /tasks"
               THEN ChangedPersons = {} /\ ChangedTasks \subseteq {Len(tasks) + 1}
               ELSE IF reqs'[r].op \in {"PUT /tasks/id", "DELETE /tasks/id"}
               THEN ChangedPersons = {} /\ ChangedTasks \subseteq {reqs'[r].task_id}
               ELSE IF reqs'[r].op = "PUT /person/me"
               THEN ChangedTasks = {} /\ ChangedPersons \subseteq {reqs'[r].person}
               ELSE ChangedTasks = {} /\ ChangedPersons = {}
    ]_vars

\* P1 has two tasks and has deleted the first: the second is as it was created
C27_Witness ==
    /\ Len(tasks) = 2
    /\ tasks[1].person_id = "P1" /\ tasks[2].person_id = "P1"
    /\ ~tasks[1].active /\ tasks[1].changed_on = 3
    /\ tasks[2].active /\ tasks[2].changed_on = 2
    /\ \A p \in Persons : persons[p].changed_on = 0
    /\ \E r \in Slots : reqs[r].pc = "done" /\ reqs[r].op = "DELETE /tasks/id"

====
